---- MODULE Spec2Model ----
(***************************************************************************)
(* nowymem: a kiosk that rotates the media files of a directory, with      *)
(* periodic and on-demand commercials and an HTTP control surface.         *)
(*                                                                         *)
(* The module models MultimediaQueue (registry, deque, history, persisted  *)
(* statuses), MemeDisplay, MemeWatcher.watch_memes and the MemeServer      *)
(* handlers that change state.  Two specifications are given:              *)
(*   QSpec : one MultimediaQueue driven through its methods in any order   *)
(*   Spec  : the program, watch_memes and the request handlers             *)
(***************************************************************************)
EXTENDS Integers, Sequences, FiniteSets, TLC

\* ---------------------------------------------------------------- bounds
\* Next() calls of one queue run (the length of its history).
MaxDisplayed == 4
\* Iterations of the watch_memes loop.
MaxTicks == 4
\* Files created or deleted by the environment during one run of QSpec or
\* FairSpec, and during one run of Spec.
MaxFileEvents == 2
MaxDirEvents == 1
MaxDumps == 1
\* The values of --commercial-rate tried.
Rates == {1, 2, 3}

\* Python's None where an object is expected, the absent exception, and the
\* absent path argument.
None == [none |-> TRUE]
NoError == "no error"
NoPath == "-"

\* File names under the watched directory and the commercial directory.
MemePaths == {"a.png", "b.png", "c.png"}
CommercialPaths == {"ad1.mp4"}
Paths == MemePaths \cup CommercialPaths
\* The paths of the watched directory that QSpec and Spec use.
QueuePaths == {"a.png", "b.png"}

\* ------------------------------------------------------------ MemeStatus
\* class MemeStatus(Enum): the member names.
Statuses == {"NEW", "NORMAL", "PENDING", "RETRACTED"}

\* member name -> member value
MemeStatusValue == [NEW |-> "NEW", NORMAL |-> "NORMAL",
                    PENDING |-> "PENDING", RETRACTED |-> "RETRACTED"]

\* MemeStatus(value): lookup of a member by its value.
MemeStatus(value) == CHOOSE s \in Statuses : MemeStatusValue[s] = value

\* MultimediaQueue.BAD_STATUSES
BAD_STATUSES == {"PENDING", "RETRACTED"}

\* The frozen dataclass Multimedia / Meme (description is always "").
Multimedia(path, status) == [path |-> path, status |-> status]

\* ------------------------------------------------------- MultimediaQueue
\* A queue object q is a record
\*   media           : _media, a dict path -> Multimedia
\*   media_queue     : _media_queue, the deque; index 1 is its left end
\*   displayed_media : _displayed_media, the history list
\*   meme_info       : _meme_info, a dict path -> status value
\* A dict is a function whose domain is its set of keys.
\* A save file is a record: exists (there is such a file), json (it parses)
\* and data (the dict it holds).

EmptyDict == << >>

AbsentFile == [exists |-> FALSE, json |-> FALSE, data |-> EmptyDict]
CorruptFile == [exists |-> TRUE, json |-> FALSE, data |-> EmptyDict]
JsonFile(d) == [exists |-> TRUE, json |-> TRUE, data |-> d]

\* del d[key]
DictDel(d, key) == [k \in DOMAIN d \ {key} |-> d[k]]

\* d[key] = value
DictSet(d, key, value) ==
    [k \in DOMAIN d \cup {key} |-> IF k = key THEN value ELSE d[k]]

\* MultimediaQueue.__init__: only FileNotFoundError is caught.
MultimediaQueue(content) ==
    IF content.exists /\ ~content.json
    THEN [raised |-> "JSONDecodeError", q |-> None]
    ELSE [raised |-> NoError,
          q |-> [media |-> EmptyDict,
                 media_queue |-> << >>,
                 displayed_media |-> << >>,
                 meme_info |-> IF content.exists THEN content.data
                               ELSE EmptyDict]]

\* add_media without the test of line 67.
add_media_NoTest(q, meme_path, is_init) ==
    LET info_get == IF meme_path \in DOMAIN q.meme_info
                    THEN q.meme_info[meme_path] ELSE "NORMAL"
        meme_status == IF is_init THEN MemeStatus(info_get) ELSE "NEW"
    IN  [q EXCEPT !.media = DictSet(@, meme_path,
                                    Multimedia(meme_path, meme_status)),
                  !.media_queue = Append(@, meme_path)]

\* add_media taking the status from the save file in every scan.
add_media_AlwaysInfo(q, meme_path, is_init) ==
    IF meme_path \notin DOMAIN q.media
    THEN LET info_get == IF meme_path \in DOMAIN q.meme_info
                         THEN q.meme_info[meme_path] ELSE "NORMAL"
         IN  [q EXCEPT !.media = DictSet(@, meme_path,
                                         Multimedia(meme_path, MemeStatus(info_get))),
                       !.media_queue = Append(@, meme_path)]
    ELSE q

\* add_media putting the path at the left end of the deque.
add_media_AppendLeft(q, meme_path, is_init) ==
    IF meme_path \notin DOMAIN q.media
    THEN LET info_get == IF meme_path \in DOMAIN q.meme_info
                         THEN q.meme_info[meme_path] ELSE "NORMAL"
             meme_status == IF is_init THEN MemeStatus(info_get) ELSE "NEW"
         IN  [q EXCEPT !.media = DictSet(@, meme_path,
                                         Multimedia(meme_path, meme_status)),
                       !.media_queue = <<meme_path>> \o @]
    ELSE q

\* MultimediaQueue.add_media
add_media(q, meme_path, is_init) ==
    IF meme_path \notin DOMAIN q.media
    THEN LET info_get == IF meme_path \in DOMAIN q.meme_info
                         THEN q.meme_info[meme_path] ELSE "NORMAL"
             meme_status == IF is_init THEN MemeStatus(info_get) ELSE "NEW"
         IN  [q EXCEPT !.media = DictSet(@, meme_path,
                                         Multimedia(meme_path, meme_status)),
                       !.media_queue = Append(@, meme_path)]
    ELSE q

\* MultimediaQueue.media: the listing of all items, as a set
media(q) == {q.media[p] : p \in DOMAIN q.media}

\* dump_bad_media writing only the items whose status is bad.
dump_bad_media_OnlyBad(q) ==
    JsonFile([p \in {x \in DOMAIN q.media : q.media[x].status \in BAD_STATUSES}
                 |-> q.media[p].status])

\* MultimediaQueue.dump_bad_media: the dict written to the save file,
\* str(meme.path) -> meme.status.name
dump_bad_media(q) == JsonFile([p \in DOMAIN q.media |-> q.media[p].status])

\* MultimediaQueue._change_status: self._media[meme_path] raises KeyError
\* for a path that is not a key.
change_status(q, meme_path, status) ==
    IF meme_path \notin DOMAIN q.media
    THEN [raised |-> "KeyError", q |-> q]
    ELSE [raised |-> NoError,
          q |-> [q EXCEPT !.media = DictSet(@, meme_path,
                              Multimedia(q.media[meme_path].path, status))]]

\* MultimediaQueue.block_media
block_media(q, meme_path) == change_status(q, meme_path, "PENDING")

\* The test of line 91 with PENDING left out of the bad statuses.
IsBad_RetractedOnly(q, meme_path) == q.media[meme_path].status = "RETRACTED"

\* The test of line 91.
IsBad(q, meme_path) == q.media[meme_path].status \in BAD_STATUSES

\* Lines 97-101 with the item put back at the right end (append for
\* appendleft).
Rotate_Append(q, meme_path) ==
    LET meme == q.media[meme_path]
        changed == change_status(q, meme_path, "NORMAL").q
    IN  [q |-> [changed EXCEPT
                  !.displayed_media = Append(@, meme),
                  !.media_queue = Append(@, meme.path)],
         ret |-> meme]

\* Lines 97-101 without the call of _change_status.
Rotate_NoStatus(q, meme_path) ==
    LET meme == q.media[meme_path]
    IN  [q |-> [q EXCEPT
                  !.displayed_media = Append(@, meme),
                  !.media_queue = <<meme.path>> \o @],
         ret |-> meme]

\* Lines 97-101 without the appendleft of line 100.
Rotate_NoReinsert(q, meme_path) ==
    LET meme == q.media[meme_path]
        changed == change_status(q, meme_path, "NORMAL").q
    IN  [q |-> [changed EXCEPT !.displayed_media = Append(@, meme)],
         ret |-> meme]

\* Lines 97-101 with the item read from the registry after the call of
\* _change_status.
Rotate_ReadAfter(q, meme_path) ==
    LET changed == change_status(q, meme_path, "NORMAL").q
        meme == changed.media[meme_path]
    IN  [q |-> [changed EXCEPT
                  !.displayed_media = Append(@, meme),
                  !.media_queue = <<meme.path>> \o @],
         ret |-> meme]

\* Lines 97-101: the item found is recorded and rotated to the left end.
Rotate(q, meme_path) ==
    LET meme == q.media[meme_path]
        changed == change_status(q, meme_path, "NORMAL").q
    IN  [q |-> [changed EXCEPT
                  !.displayed_media = Append(@, meme),
                  !.media_queue = <<meme.path>> \o @],
         ret |-> meme]

\* next_media without the del of line 94.
RECURSIVE next_media_NoDel(_, _)
next_media_NoDel(q, files) ==
    IF q.media_queue = << >>
    THEN [q |-> q, ret |-> None]
    ELSE LET meme_path == q.media_queue[Len(q.media_queue)]
             popped == [q EXCEPT !.media_queue = SubSeq(@, 1, Len(@) - 1)]
         IN  IF IsBad(popped, meme_path)
             THEN next_media_NoDel(popped, files)
             ELSE IF meme_path \notin files
             THEN next_media_NoDel(popped, files)
             ELSE Rotate(popped, meme_path)

\* next_media with the del of line 94 also applied to an item skipped for
\* its status.
RECURSIVE next_media_DelBad(_, _)
next_media_DelBad(q, files) ==
    IF q.media_queue = << >>
    THEN [q |-> q, ret |-> None]
    ELSE LET meme_path == q.media_queue[Len(q.media_queue)]
             popped == [q EXCEPT !.media_queue = SubSeq(@, 1, Len(@) - 1)]
         IN  IF IsBad(popped, meme_path) \/ meme_path \notin files
             THEN next_media_DelBad(
                      [popped EXCEPT !.media = DictDel(@, meme_path)], files)
             ELSE Rotate(popped, meme_path)

\* MultimediaQueue.next_media; files is the set of paths for which
\* Path.is_file() holds.
RECURSIVE next_media(_, _)
next_media(q, files) ==
    IF q.media_queue = << >>
    THEN [q |-> q, ret |-> None]
    ELSE LET meme_path == q.media_queue[Len(q.media_queue)]
             popped == [q EXCEPT !.media_queue = SubSeq(@, 1, Len(@) - 1)]
         IN  IF IsBad(popped, meme_path)
             THEN next_media(popped, files)
             ELSE IF meme_path \notin files
             THEN next_media([popped EXCEPT !.media = DictDel(@, meme_path)],
                             files)
             ELSE Rotate(popped, meme_path)

\* MultimediaQueue.get_last_media: the slice [-cnt:]
get_last_media(q, cnt) ==
    LET n == Len(q.displayed_media)
        start == IF cnt = 0 THEN 0 ELSE IF cnt >= n THEN 0 ELSE n - cnt
    IN  SubSeq(q.displayed_media, start + 1, n)


\* ----------------------------------------------------------- MemeDisplay
\* What a loop iteration hands to the display: the queue asked ("meme" or
\* "commercial"), why ("rotation", "periodic", "ondemand") and the item that
\* next_media returned, None included.
Shown(kind, trigger, item) == [kind |-> kind, trigger |-> trigger, item |-> item]

\* MemeDisplay.display_meme: meme.path raises AttributeError for None; the
\* coroutine suspends only for the jingle of a NEW meme.
display_meme(meme) ==
    IF meme = None
    THEN [raised |-> "AttributeError: 'NoneType' object has no attribute 'path'",
          suspends |-> FALSE]
    ELSE [raised |-> NoError, suspends |-> meme.status = "NEW"]

\* MemeDisplay.display_commercial: returns at once for None, else waits for
\* the player.
display_commercial(commercial) ==
    [raised |-> NoError, suspends |-> commercial # None]

\* ----------------------------------------------------------- MemeWatcher
\* The orders in which iterdir() may yield the files ps.
Perms(ps) ==
    {f \in [1..Cardinality(ps) -> ps] :
        \A i, j \in 1..Cardinality(ps) : i # j => f[i] # f[j]}

\* for path in directory.iterdir(): queue.add_media(path, is_init)
RECURSIVE Scan(_, _, _)
Scan(q, order, is_init) ==
    IF order = << >> THEN q
    ELSE Scan(add_media(q, Head(order), is_init), Tail(order), is_init)

\* The test of line 171 taken one iteration late.
PeriodicTrigger_Late(directory, cnt, rate) ==
    directory # NoPath /\ (cnt - 1) % rate = 0

\* The test of line 171.
PeriodicTrigger(directory, cnt, rate) ==
    directory # NoPath /\ cnt % rate = 0

\* Lines 173-180 without the reset of line 175.
WatchDecide_NoReset(flag, cnt, mq, cq, fs) ==
    IF flag
    THEN IF cq = None
         THEN [raised |-> "AttributeError: 'NoneType' object has no attribute 'next_media'",
               flag |-> FALSE, cnt |-> cnt, mq |-> mq, cq |-> cq,
               shown |-> << >>]
         ELSE LET r == next_media(cq, fs)
              IN  [raised |-> display_commercial(r.ret).raised,
                   flag |-> FALSE, cnt |-> cnt + 1, mq |-> mq, cq |-> r.q,
                   shown |-> <<Shown("commercial", "ondemand", r.ret)>>]
    ELSE LET r == next_media(mq, fs)
             d == display_meme(r.ret)
         IN  [raised |-> d.raised, flag |-> flag,
              cnt |-> IF d.raised = NoError THEN cnt + 1 ELSE cnt,
              mq |-> r.q, cq |-> cq,
              shown |-> <<Shown("meme", "rotation", r.ret)>>]

\* Lines 173-180: the on-demand commercial or the meme, then meme_cnt += 1.
\* An exception leaves the loop before line 180.
WatchDecide(flag, cnt, mq, cq, fs) ==
    IF flag
    THEN IF cq = None
         THEN [raised |-> "AttributeError: 'NoneType' object has no attribute 'next_media'",
               flag |-> FALSE, cnt |-> 0, mq |-> mq, cq |-> cq,
               shown |-> << >>]
         ELSE LET r == next_media(cq, fs)
              IN  [raised |-> display_commercial(r.ret).raised,
                   flag |-> FALSE, cnt |-> 0 + 1, mq |-> mq, cq |-> r.q,
                   shown |-> <<Shown("commercial", "ondemand", r.ret)>>]
    ELSE LET r == next_media(mq, fs)
             d == display_meme(r.ret)
         IN  [raised |-> d.raised, flag |-> flag,
              cnt |-> IF d.raised = NoError THEN cnt + 1 ELSE cnt,
              mq |-> r.q, cq |-> cq,
              shown |-> <<Shown("meme", "rotation", r.ret)>>]

\* ----------------------------------------------------------------- state
VARIABLES
    files,                 \* the paths that exist as files on disk
    file_events,           \* how many times the environment changed files
    disk,                  \* the save files: meme_info and commercial_info
    meme_queue,            \* MemeWatcher.meme_queue (None before construction)
    commercial_queue,      \* MemeWatcher.commercial_queue, or None
    commercial_directory,  \* MemeWatcher._commercial_directory, or None
    commercial_rate,       \* MemeWatcher._commercial_rate
    ensure_commercial,     \* MemeWatcher._ensure_commercial
    meme_cnt,              \* the local meme_cnt of watch_memes
    pc,                    \* where the driving task is
    error,                 \* the exception that ended watch_memes, if any
    awaiting,              \* watch_memes is suspended in an await
    tick,                  \* the current loop iteration: its number, the flag
                           \* at its start, the calls made to the display
    call,                  \* the operation performed last and its outcome
    blocked,               \* paths that block_media has set to PENDING
    fair,                  \* per path X: the paths (X too) that were queued
                           \* when X was last returned and have been eligible
                           \* ever since
    ever_asked,            \* ask_for_commercial has been called
    od_ago,                \* iterations since the last on-demand commercial
                           \* with no request after it, -1 when there is none
    audit                  \* pure: the queue has only been enqueued to since
                           \* it was made; enq: the distinct paths given to
                           \* add_media meanwhile, in call order, kept while
                           \* only next_media is called after; persisted:
                           \* the registry's statuses at the last dump;
                           \* dumps: the dumps made

vars == <<files, file_events, disk, meme_queue, commercial_queue, commercial_directory,
          commercial_rate, ensure_commercial, meme_cnt, pc, error, awaiting,
          tick, call, blocked, fair, ever_asked, od_ago, audit>>

watcher_vars == <<commercial_queue, commercial_directory, commercial_rate,
                  ensure_commercial, meme_cnt, error, awaiting, tick,
                  ever_asked, od_ago>>

Range(s) == {s[i] : i \in 1..Len(s)}

\* audit for a queue just made, and after a call that ends the observation
\* of enq.
NoAudit ==
    [pure |-> TRUE, enq |-> << >>, persisted |-> EmptyDict, dumps |-> 0]
Impure == [audit EXCEPT !.pure = FALSE, !.enq = << >>]
\* audit after add_media(p), and after next_media().
Enqueued(p) ==
    IF ~audit.pure THEN Impure
    ELSE IF p \notin Range(audit.enq) THEN [audit EXCEPT !.enq = Append(@, p)]
    ELSE audit
Dequeued == [audit EXCEPT !.pure = FALSE]

\* The record kept in call: the method called last on a queue ("other" for
\* every other step), the path it was given, what it returned and raised.
Call(name, path, ret, raised) ==
    [name |-> name, path |-> path, ret |-> ret, raised |-> raised]
Other == Call("other", NoPath, None, NoError)

\* A path that next_media would return if it reached it.
Eligible(q, fs, p) ==
    /\ p \in DOMAIN q.media
    /\ q.media[p].status \notin BAD_STATUSES
    /\ p \in fs

\* fair after a step that leaves the queue as q and the files as fs.
StillFair(q, fs) == [x \in Paths |-> {y \in fair[x] : Eligible(q, fs, y)}]

\* Save files a run may start from: none, an unparsable one, or a map that
\* holds a status for some of the paths.
SaveMaps(ps) ==
    {JsonFile([p \in ps |-> MemeStatusValue[s]]) : s \in Statuses}
SaveFiles(ps) == {AbsentFile, CorruptFile} \cup SaveMaps(ps)

\* ------------------------------------------------- QSpec: one queue alone
QInit ==
    /\ files \in SUBSET QueuePaths
    /\ file_events = 0
    /\ disk \in {[meme_info |-> c, commercial_info |-> AbsentFile] :
                    c \in SaveFiles(QueuePaths)}
    /\ meme_queue = None
    /\ commercial_queue = None
    /\ commercial_directory = None
    /\ commercial_rate = 1
    /\ ensure_commercial = FALSE
    /\ meme_cnt = 1
    /\ pc = "q_new"
    /\ error = NoError
    /\ awaiting = FALSE
    /\ tick = [no |-> 0, flag |-> FALSE, shown |-> << >>]
    /\ call = Other
    /\ blocked = {}
    /\ fair = [x \in Paths |-> {}]
    /\ ever_asked = FALSE
    /\ od_ago = -1
    /\ audit = NoAudit

\* MultimediaQueue('meme_info')
QConstruct ==
    /\ pc = "q_new"
    /\ LET r == MultimediaQueue(disk.meme_info)
       IN  /\ meme_queue' = r.q
           /\ pc' = IF r.raised = NoError THEN "q_init" ELSE "q_failed"
           /\ call' = Call("construct", NoPath, None, r.raised)
    /\ audit' = [audit EXCEPT !.pure = TRUE, !.enq = << >>]
    /\ UNCHANGED <<files, file_events, disk, blocked, fair, watcher_vars>>

\* add_media(p, is_init=True): the scan made before the first Next
QEnqueueInit(p) ==
    /\ pc = "q_init"
    /\ meme_queue' = add_media(meme_queue, p, TRUE)
    /\ call' = Call("add_media", NoPath, None, NoError)
    /\ fair' = StillFair(meme_queue', files)
    /\ audit' = Enqueued(p)
    /\ UNCHANGED <<files, file_events, disk, pc, blocked, watcher_vars>>

\* The initial scan is over.
QStart ==
    /\ pc = "q_init"
    /\ pc' = "q_run"
    /\ call' = Other
    /\ UNCHANGED <<audit, files, file_events, disk, meme_queue, blocked, fair, watcher_vars>>

\* add_media(p): a later scan
QEnqueue(p) ==
    /\ pc = "q_run"
    /\ meme_queue' = add_media(meme_queue, p, FALSE)
    /\ call' = Call("add_media", NoPath, None, NoError)
    /\ fair' = StillFair(meme_queue', files)
    /\ audit' = Enqueued(p)
    /\ UNCHANGED <<files, file_events, disk, pc, blocked, watcher_vars>>

\* block_media(p)
QBlock(p) ==
    /\ pc = "q_run"
    /\ LET r == block_media(meme_queue, p)
       IN  /\ meme_queue' = r.q
           /\ call' = Call("block_media", p, None, r.raised)
           /\ blocked' = IF r.raised = NoError THEN blocked \cup {p} ELSE blocked
    /\ fair' = StillFair(meme_queue', files)
    /\ audit' = Impure
    /\ UNCHANGED <<files, file_events, disk, pc, watcher_vars>>

\* next_media()
QNext ==
    /\ pc = "q_run"
    /\ Len(meme_queue.displayed_media) < MaxDisplayed
    /\ LET r == next_media(meme_queue, files)
       IN  /\ meme_queue' = r.q
           /\ call' = Call("next_media", NoPath, r.ret, NoError)
           /\ fair' = IF r.ret = None
                      THEN StillFair(r.q, files)
                      ELSE [StillFair(r.q, files) EXCEPT ![r.ret.path] =
                              {y \in Range(meme_queue.media_queue) :
                                  Eligible(r.q, files, y)}]
    /\ audit' = Dequeued
    /\ UNCHANGED <<files, file_events, disk, pc, blocked, watcher_vars>>

\* The environment creates or deletes a file of the watched directory.
FileCreate(p, budget) ==
    /\ p \notin files
    /\ pc \in {"q_init", "q_run", "start", "scan", "decide"}
    /\ file_events < budget
    /\ files' = files \cup {p}
    /\ file_events' = file_events + 1
    /\ call' = Other
    /\ fair' = fair
    /\ UNCHANGED <<audit, disk, meme_queue, pc, blocked, watcher_vars>>

FileDelete(p, budget) ==
    /\ p \in files
    /\ pc \in {"q_init", "q_run", "start", "scan", "decide"}
    /\ file_events < budget
    /\ files' = files \ {p}
    /\ file_events' = file_events + 1
    /\ call' = Other
    /\ fair' = StillFair(meme_queue, files')
    /\ UNCHANGED <<audit, disk, meme_queue, pc, blocked, watcher_vars>>

QNext_ ==
    \/ QConstruct
    \/ QStart
    \/ QNext
    \/ \E p \in QueuePaths : QEnqueueInit(p)
    \/ \E p \in QueuePaths : QEnqueue(p)
    \/ \E p \in QueuePaths : QBlock(p)
    \/ \E p \in QueuePaths : FileCreate(p, MaxFileEvents)
    \/ \E p \in QueuePaths : FileDelete(p, MaxFileEvents)

QSpec == QInit /\ [][QNext_]_vars

\* ------------- FairSpec: a queue in rotation, after its initial scan
FairInit ==
    /\ files = MemePaths
    /\ file_events = 0
    /\ disk = [meme_info |-> AbsentFile, commercial_info |-> AbsentFile]
    /\ meme_queue = MultimediaQueue(AbsentFile).q
    /\ commercial_queue = None
    /\ commercial_directory = None
    /\ commercial_rate = 1
    /\ ensure_commercial = FALSE
    /\ meme_cnt = 1
    /\ pc = "q_run"
    /\ error = NoError
    /\ awaiting = FALSE
    /\ tick = [no |-> 0, flag |-> FALSE, shown |-> << >>]
    /\ call = Other
    /\ blocked = {}
    /\ fair = [x \in Paths |-> {}]
    /\ ever_asked = FALSE
    /\ od_ago = -1
    /\ audit = NoAudit

FairNext ==
    \/ QNext
    \/ \E p \in MemePaths : QEnqueue(p)
    \/ \E p \in MemePaths : QBlock(p)
    \/ \E p \in MemePaths : FileCreate(p, MaxFileEvents)
    \/ \E p \in MemePaths : FileDelete(p, MaxFileEvents)

FairSpec == FairInit /\ [][FairNext]_vars

\* --------- PersistSpec: a queue dumped, and one made from the save file
\* dump_bad_media(), as the last call on the queue
QPersist ==
    /\ pc = "q_run"
    /\ audit.dumps < MaxDumps
    /\ disk' = [disk EXCEPT !.meme_info = dump_bad_media(meme_queue)]
    /\ pc' = "q_stopped"
    /\ call' = Call("dump_bad_media", NoPath, None, NoError)
    /\ audit' = [audit EXCEPT
                   !.persisted = [p \in DOMAIN meme_queue.media |->
                                     meme_queue.media[p].status],
                   !.dumps = @ + 1]
    /\ UNCHANGED <<files, file_events, meme_queue, blocked, fair, watcher_vars>>

\* The process ends; the next one starts with the disk as it is.
QRestart ==
    /\ pc = "q_stopped"
    /\ pc' = "q_new"
    /\ meme_queue' = None
    /\ blocked' = {}
    /\ fair' = [x \in Paths |-> {}]
    /\ call' = Other
    /\ UNCHANGED <<files, file_events, disk, audit, watcher_vars>>

PersistNext ==
    \/ QConstruct
    \/ QStart
    \/ QNext
    \/ QPersist
    \/ QRestart
    \/ \E p \in QueuePaths : QEnqueueInit(p)
    \/ \E p \in QueuePaths : QEnqueue(p)
    \/ \E p \in QueuePaths : QBlock(p)

PersistSpec == QInit /\ [][PersistNext]_vars

\* ---- RecentSpec: a queue in rotation, its history read, paths enqueued again
\* The counts get_last_media is called with: none, fewer than, as many as
\* and more than the items displayed.
Counts == 0..(MaxDisplayed + 1)

RecentInit ==
    /\ files = QueuePaths
    /\ file_events = 0
    /\ disk = [meme_info |-> AbsentFile, commercial_info |-> AbsentFile]
    /\ meme_queue = MultimediaQueue(AbsentFile).q
    /\ commercial_queue = None
    /\ commercial_directory = None
    /\ commercial_rate = 1
    /\ ensure_commercial = FALSE
    /\ meme_cnt = 1
    /\ pc = "q_run"
    /\ error = NoError
    /\ awaiting = FALSE
    /\ tick = [no |-> 0, flag |-> FALSE, shown |-> << >>]
    /\ call = Other
    /\ blocked = {}
    /\ fair = [x \in Paths |-> {}]
    /\ ever_asked = FALSE
    /\ od_ago = -1
    /\ audit = NoAudit

\* get_last_media(cnt); what it returned is kept with the count asked for.
QRecent(cnt) ==
    /\ pc = "q_run"
    /\ call' = Call("get_last_media", NoPath,
                    [cnt |-> cnt, items |-> get_last_media(meme_queue, cnt)],
                    NoError)
    /\ UNCHANGED <<files, file_events, disk, meme_queue, pc, blocked, fair,
                   audit, watcher_vars>>

\* add_media(p) for a path that is registered
QEnqueueAgain(p) ==
    /\ pc = "q_run"
    /\ p \in DOMAIN meme_queue.media
    /\ meme_queue' = add_media(meme_queue, p, FALSE)
    /\ call' = Call("add_media", p, None, NoError)
    /\ fair' = StillFair(meme_queue', files)
    /\ audit' = Enqueued(p)
    /\ UNCHANGED <<files, file_events, disk, pc, blocked, watcher_vars>>

RecentNext ==
    \/ QNext
    \/ \E p \in QueuePaths : QEnqueueAgain(p)
    \/ \E p \in QueuePaths : QEnqueue(p)
    \/ \E p \in QueuePaths : QBlock(p)
    \/ \E cnt \in Counts : QRecent(cnt)

RecentSpec == RecentInit /\ [][RecentNext]_vars


\* ------------------------------------------------------ Spec: the program
\* main(): the command line and the disk the process starts with.
Init ==
    /\ files \in SUBSET (QueuePaths \cup CommercialPaths)
    /\ file_events = 0
    /\ disk \in {[meme_info |-> c, commercial_info |-> AbsentFile] :
                    c \in {AbsentFile, CorruptFile,
                            JsonFile([p \in QueuePaths |-> "PENDING"])}}
    /\ meme_queue = None
    /\ commercial_queue = None
    /\ commercial_directory \in {NoPath, "ads"}
    /\ commercial_rate \in Rates
    /\ ensure_commercial = FALSE
    /\ meme_cnt = 1
    /\ pc = "new"
    /\ error = NoError
    /\ awaiting = FALSE
    /\ tick = [no |-> 0, flag |-> FALSE, shown |-> << >>]
    /\ call = Other
    /\ blocked = {}
    /\ fair = [x \in Paths |-> {}]
    /\ ever_asked = FALSE
    /\ od_ago = -1
    /\ audit = NoAudit

\* MemeWatcher.__init__
MemeWatcherInit ==
    /\ pc = "new"
    /\ LET m == MultimediaQueue(disk.meme_info)
           c == IF commercial_directory # NoPath
                THEN MultimediaQueue(disk.commercial_info)
                ELSE [raised |-> NoError, q |-> None]
       IN  IF m.raised # NoError
           THEN /\ pc' = "crashed"
                /\ error' = m.raised
                /\ UNCHANGED <<meme_queue, commercial_queue>>
           ELSE IF c.raised # NoError
           THEN /\ pc' = "crashed"
                /\ error' = c.raised
                /\ meme_queue' = m.q
                /\ UNCHANGED commercial_queue
           ELSE /\ pc' = "start"
                /\ error' = NoError
                /\ meme_queue' = m.q
                /\ commercial_queue' = c.q
    /\ ensure_commercial' = FALSE
    /\ call' = Other
    /\ UNCHANGED <<audit, files, file_events, disk, commercial_directory,
                   commercial_rate, meme_cnt, awaiting, tick, blocked, fair,
                   ever_asked, od_ago>>

\* watch_memes, lines 160-165: the initial scans.  Without a commercial
\* directory line 164 calls iterdir on None.
WatchInit ==
    /\ pc = "start"
    /\ meme_cnt' = 1
    /\ \E order \in Perms(files \cap MemePaths) :
           meme_queue' = Scan(meme_queue, order, TRUE)
    /\ IF commercial_directory = NoPath
       THEN /\ pc' = "crashed"
            /\ error' = "AttributeError: 'NoneType' object has no attribute 'iterdir'"
            /\ UNCHANGED commercial_queue
       ELSE /\ pc' = "scan"
            /\ error' = NoError
            /\ \E order \in Perms(files \cap CommercialPaths) :
                   commercial_queue' = Scan(commercial_queue, order, TRUE)
    /\ call' = Other
    /\ UNCHANGED <<audit, files, file_events, disk, commercial_directory,
                   commercial_rate, ensure_commercial, awaiting, tick,
                   blocked, fair, ever_asked, od_ago>>

\* One loop iteration, lines 167-172: the scans and the periodic commercial.
TickScan ==
    /\ pc = "scan"
    /\ tick.no < MaxTicks
    /\ \E order \in Perms(files \cap MemePaths) :
           meme_queue' = Scan(meme_queue, order, FALSE)
    /\ IF commercial_directory = NoPath
       THEN /\ pc' = "crashed"
            /\ error' = "AttributeError: 'NoneType' object has no attribute 'iterdir'"
            /\ awaiting' = FALSE
            /\ tick' = [no |-> tick.no + 1, flag |-> ensure_commercial,
                        shown |-> << >>]
            /\ UNCHANGED commercial_queue
       ELSE \E order \in Perms(files \cap CommercialPaths) :
              LET scanned == Scan(commercial_queue, order, FALSE)
                  fires == PeriodicTrigger(commercial_directory, meme_cnt,
                                           commercial_rate)
                  r == next_media(scanned, files)
              IN  /\ pc' = "decide"
                  /\ error' = NoError
                  /\ commercial_queue' = IF fires THEN r.q ELSE scanned
                  /\ awaiting' = (fires /\ display_commercial(r.ret).suspends)
                  /\ tick' = [no |-> tick.no + 1, flag |-> ensure_commercial,
                              shown |-> IF fires
                                        THEN <<Shown("commercial", "periodic", r.ret)>>
                                        ELSE << >>]
    /\ od_ago' = IF od_ago >= 0 THEN od_ago + 1 ELSE od_ago
    /\ call' = Other
    /\ UNCHANGED <<audit, files, file_events, disk, commercial_directory,
                   commercial_rate, ensure_commercial, meme_cnt, blocked,
                   fair, ever_asked>>

\* The rest of the iteration, lines 173-181: the on-demand commercial or the
\* meme, the count, the sleep.
TickDecide ==
    /\ pc = "decide"
    /\ LET r == WatchDecide(ensure_commercial, meme_cnt, meme_queue,
                            commercial_queue, files)
       IN  /\ ensure_commercial' = r.flag
           /\ meme_cnt' = r.cnt
           /\ meme_queue' = r.mq
           /\ commercial_queue' = r.cq
           /\ tick' = [tick EXCEPT !.shown = @ \o r.shown]
           /\ error' = r.raised
           /\ pc' = IF r.raised = NoError THEN "scan" ELSE "crashed"
           /\ awaiting' = (r.raised = NoError)
           /\ od_ago' = IF \E i \in 1..Len(r.shown) : r.shown[i].trigger = "ondemand"
                        THEN 0 ELSE od_ago
    /\ call' = Other
    /\ UNCHANGED <<audit, files, file_events, disk, commercial_directory,
                   commercial_rate, blocked, fair, ever_asked>>

\* The server's handlers run while watch_memes is suspended.
Serving == awaiting /\ pc \in {"scan", "decide"}

\* MemeServer.report_meme: POST /report/{meme_name}
ReportMeme(p) ==
    /\ Serving
    /\ LET r == block_media(meme_queue, p)
       IN  /\ meme_queue' = r.q
           /\ call' = Call("block_media", p, None, r.raised)
           /\ blocked' = IF r.raised = NoError THEN blocked \cup {p} ELSE blocked
    /\ UNCHANGED <<audit, files, file_events, disk, pc, fair, watcher_vars>>

\* MemeWatcher.ask_for_commercial, through MemeServer.plz_show_commercial
PlzShowCommercial ==
    /\ Serving
    /\ ensure_commercial' = TRUE
    /\ ever_asked' = TRUE
    /\ od_ago' = -1
    /\ call' = Other
    /\ UNCHANGED <<audit, files, file_events, disk, meme_queue, commercial_queue,
                   commercial_directory, commercial_rate, meme_cnt, pc, error,
                   awaiting, tick, blocked, fair>>

Next ==
    \/ MemeWatcherInit
    \/ WatchInit
    \/ TickScan
    \/ TickDecide
    \/ PlzShowCommercial
    \/ \E p \in QueuePaths : ReportMeme(p)
    \/ \E p \in QueuePaths \cup CommercialPaths : FileCreate(p, MaxDirEvents)
    \/ \E p \in QueuePaths \cup CommercialPaths : FileDelete(p, MaxDirEvents)

Spec == Init /\ [][Next]_vars

\* ------------------------------- ShutdownSpec: the program, and its end
\* MemeServer._cleanup, the on_shutdown handler: the server is stopped while
\* it serves.
Cleanup ==
    /\ Serving
    /\ disk' = [disk EXCEPT !.meme_info = dump_bad_media(meme_queue)]
    /\ pc' = "stopped"
    /\ awaiting' = FALSE
    /\ call' = Other
    /\ UNCHANGED <<files, file_events, meme_queue, commercial_queue,
                   commercial_directory, commercial_rate, ensure_commercial,
                   meme_cnt, error, tick, blocked, fair, ever_asked, od_ago,
                   audit>>

ShutdownNext ==
    \/ Next
    \/ Cleanup

ShutdownSpec == Init /\ [][ShutdownNext]_vars

\* ------------------------------------------------------------ properties
InQueueRun == pc \in {"q_init", "q_run"}
Returned == call.name = "next_media" /\ call.ret # None
History == meme_queue.displayed_media
HistoryPaths == {History[i].path : i \in 1..Len(History)}

\* C1: once block_media(p) has been applied to a registered path p, no later
\* next_media() returns an item with path p, and p stays in the registry.
BlockedNeverReturned ==
    [][/\ \A p \in blocked' : p \in DOMAIN meme_queue'.media
       /\ Returned' => call'.ret.path \notin blocked]_vars

\* C1 happens: a path that was displayed and then blocked, its file still
\* there, and two later calls of next_media that returned the other path.
BlockedWitness ==
    /\ pc = "q_run"
    /\ Returned
    /\ Len(History) >= 3
    /\ History[1].path \in blocked \cap files
    /\ History[2].path # History[1].path
    /\ History[3].path # History[1].path

\* The number of times path y was returned after the last return of x.
CountSince(h, x, y) ==
    LET last == CHOOSE i \in 1..Len(h) :
                    h[i].path = x /\ \A j \in (i + 1)..Len(h) : h[j].path # x
    IN  Cardinality({j \in (last + 1)..Len(h) : h[j].path = y})

\* C6 as stated: when next_media() returns a path X that it has returned
\* before, every other path that was queued at the previous return of X and
\* has been eligible ever since (not blocked, file present) was returned
\* exactly once in between.
RoundRobinExactlyOnce ==
    [][Returned' =>
         LET X == call'.ret.path
         IN  X \in HistoryPaths =>
                 \A Y \in fair[X] \ {X} : CountSince(History, X, Y) = 1]_vars

\* C6 as amended: every such path was returned at least once in between, and
\* exactly once when X itself has been eligible ever since its previous
\* return (it was not removed from the registry and enqueued again).
RoundRobinFair ==
    [][Returned' =>
         LET X == call'.ret.path
         IN  X \in HistoryPaths =>
                 \A Y \in fair[X] \ {X} :
                     /\ CountSince(History, X, Y) >= 1
                     /\ X \in fair[X] => CountSince(History, X, Y) = 1]_vars

\* C6 happens: a path comes back after the two other paths had their turn.
RoundRobinWitness ==
    /\ Returned
    /\ Len(History) = 4
    /\ History[4].path = History[1].path
    /\ {History[1].path, History[2].path, History[3].path} = MemePaths

\* C7: after next_media() returns an item with path X, the registry holds X
\* as NORMAL, the history is the old history plus one entry, with path X,
\* and X is in the deque exactly once, at its left end.
NextPostcondition ==
    [][Returned' =>
         LET X == call'.ret.path
             old == meme_queue
             new == meme_queue'
         IN  /\ X \in DOMAIN new.media
             /\ new.media[X].status = "NORMAL"
             /\ Len(new.displayed_media) = Len(old.displayed_media) + 1
             /\ SubSeq(new.displayed_media, 1, Len(old.displayed_media))
                    = old.displayed_media
             /\ new.displayed_media[Len(new.displayed_media)].path = X
             /\ new.media_queue[1] = X
             /\ Cardinality({i \in 1..Len(new.media_queue) :
                                 new.media_queue[i] = X}) = 1]_vars

\* C7 happens: next_media returned an item that was NEW, with another path
\* queued behind it.
NextPostconditionWitness ==
    /\ Returned
    /\ call.ret.status = "NEW"
    /\ Len(meme_queue.media_queue) >= 2

\* The paths a call of next_media took from the deque.
Taken ==
    {p \in Range(meme_queue.media_queue) : p \notin Range(meme_queue'.media_queue)}
        \cup (IF call'.ret # None THEN {call'.ret.path} ELSE {})

\* C10 as stated: every item next_media() takes from the deque whose file is
\* missing is removed from the registry, whatever its status.
MissingFileRemovedAnyStatus ==
    [][call'.name = "next_media" =>
         \A p \in Taken : p \notin files => p \notin DOMAIN meme_queue'.media]_vars

\* C10 as amended: an item taken from the deque whose file is missing is
\* removed from the registry when its status is not bad, and kept, with its
\* status, when its status is bad; a path that left the registry comes back
\* only through add_media.
MissingFileRemovedUnlessBad ==
    [][/\ call'.name = "next_media" =>
            \A p \in Taken : p \notin files =>
                IF meme_queue.media[p].status \in BAD_STATUSES
                THEN /\ p \in DOMAIN meme_queue'.media
                     /\ meme_queue'.media[p] = meme_queue.media[p]
                ELSE p \notin DOMAIN meme_queue'.media
       /\ (InQueueRun /\ InQueueRun') =>
            \A p \in DOMAIN meme_queue'.media \ DOMAIN meme_queue.media :
                call'.name = "add_media"]_vars

\* C10 happens: a path that was displayed earlier has lost its file and a
\* call of next_media has removed it from the registry.
MissingFileWitness ==
    /\ pc = "q_run"
    /\ call.name = "next_media"
    /\ \E p \in HistoryPaths : p \notin files /\ p \notin DOMAIN meme_queue.media


\* The entries of the current iteration, by queue, and those that put
\* something on the screen.
ShownOf(kind) == {i \in 1..Len(tick.shown) : tick.shown[i].kind = kind}
ShownBy(trigger) == {i \in 1..Len(tick.shown) : tick.shown[i].trigger = trigger}
Displayed == {i \in 1..Len(tick.shown) : tick.shown[i].item # None}

\* C2: a loop iteration performs one dequeue-and-display, a periodic
\* commercial or an on-demand commercial or a meme, never two of them: no
\* iteration puts two items on the screen.
OneDisplayPerTick == Cardinality(Displayed) <= 1

\* C3: when the meme queue's next_media() yields no item, the iteration
\* raises no error and the loop goes on.
EmptyRotationNonFatal ==
    (\E i \in ShownOf("meme") : tick.shown[i].item = None) => pc # "crashed"

\* C4: without a commercial directory the loop still runs: watch_memes does
\* not end in an exception (the save file being readable).
NoCommercialDirectoryRuns ==
    (commercial_directory = NoPath /\ disk.meme_info # CorruptFile)
        => pc # "crashed"

\* C5: block_media(path) for a path that is not in the registry reports no
\* error and leaves the queue as it was.
BlockUnregisteredNoOp ==
    [][(call'.name = "block_media" /\ call'.path \notin DOMAIN meme_queue.media)
          => (call'.raised = NoError /\ meme_queue' = meme_queue)]_vars

\* C8: with a commercial directory, rate P and ask_for_commercial never
\* called, iteration k (from 1) dequeues a commercial exactly when k is a
\* multiple of P, and every other iteration dequeues one meme, hands it to
\* the display, and dequeues no commercial.
PeriodicSchedule ==
    (/\ commercial_directory # NoPath
     /\ ~ever_asked
     /\ tick.no >= 1
     /\ pc \in {"decide", "scan", "crashed"})
        => /\ (ShownOf("commercial") # {}) <=> (tick.no % commercial_rate = 0)
           /\ (pc # "decide" /\ tick.no % commercial_rate # 0)
                 => (Cardinality(ShownOf("meme")) = 1 /\ Len(tick.shown) = 1)

\* C8 happens: the third iteration at rate 3 has played a commercial.
PeriodicWitness ==
    /\ commercial_rate = 3
    /\ ~ever_asked
    /\ tick.no = 3
    /\ pc = "scan"
    /\ \E i \in ShownOf("commercial") : i \in Displayed

\* C9: an iteration that starts with the on-demand flag set dequeues a
\* commercial for it and no meme, clears the flag and resets the count (it
\* is 1 when the iteration ends); with no request after it, the periodic
\* commercial fires in the j-th iteration after it exactly when j is a
\* multiple of P, so first in the P-th.
OnDemandSchedule ==
    /\ []((od_ago >= 1 /\ pc \in {"decide", "scan", "crashed"})
            => ((ShownBy("periodic") # {}) <=> (od_ago % commercial_rate = 0)))
    /\ [][(pc = "decide" /\ pc' # "decide" /\ tick.flag)
            => /\ \E i \in 1..Len(tick'.shown) :
                      /\ tick'.shown[i].trigger = "ondemand"
                      /\ tick'.shown[i].kind = "commercial"
               /\ \A i \in 1..Len(tick'.shown) : tick'.shown[i].kind # "meme"
               /\ ~ensure_commercial'
               /\ meme_cnt' = 1
               /\ pc' = "scan"]_vars

\* C9 happens: two iterations after an on-demand commercial, at rate 2, the
\* periodic commercial has played.
OnDemandWitness ==
    /\ commercial_rate = 2
    /\ od_ago = 2
    /\ pc = "scan"
    /\ \E i \in ShownBy("periodic") : i \in Displayed

\* C11: next_media() on a queue whose order is empty, or whose items are all
\* PENDING or RETRACTED, returns None and raises nothing; every item with
\* such a status stays in the registry with its status, and the history is
\* as it was.
NothingEligibleReturnsNone ==
    [][(/\ call'.name = "next_media"
        /\ \/ meme_queue.media_queue = << >>
           \/ \A p \in DOMAIN meme_queue.media :
                  meme_queue.media[p].status \in {"PENDING", "RETRACTED"})
        => /\ call'.ret = None
           /\ call'.raised = NoError
           /\ \A p \in DOMAIN meme_queue.media :
                  meme_queue.media[p].status \in {"PENDING", "RETRACTED"}
                  => /\ p \in DOMAIN meme_queue'.media
                     /\ meme_queue'.media[p] = meme_queue.media[p]
           /\ meme_queue'.displayed_media = meme_queue.displayed_media]_vars

\* C11 happens: next_media has returned None on a queue that holds a PENDING
\* and a RETRACTED item and nothing else; both are out of the order.
NothingEligibleWitness ==
    /\ pc = "q_run"
    /\ call.name = "next_media"
    /\ call.ret = None
    /\ DOMAIN meme_queue.media = QueuePaths
    /\ \E p, r \in QueuePaths :
           /\ meme_queue.media[p].status = "PENDING"
           /\ meme_queue.media[r].status = "RETRACTED"
    /\ meme_queue.media_queue = << >>
    /\ History = << >>

\* The last k entries of the history, for k up to its length.
LastOfHistory(k) == SubSeq(History, Len(History) - k + 1, Len(History))

\* C12: get_last_media(n), for every n >= 0, returns the last n displayed
\* items in display order: min(n, len(history)) of them, none when nothing
\* has been displayed.
RecentHistoryLastN ==
    call.name = "get_last_media"
    => LET n == call.ret.cnt
           k == IF n <= Len(History) THEN n ELSE Len(History)
       IN  /\ Len(call.ret.items) = k
           /\ call.ret.items = LastOfHistory(k)

\* C12 for the counts the program uses, which are positive.
RecentHistoryLastPositiveN ==
    (call.name = "get_last_media" /\ call.ret.cnt >= 1)
    => LET n == call.ret.cnt
           k == IF n <= Len(History) THEN n ELSE Len(History)
       IN  /\ Len(call.ret.items) = k
           /\ call.ret.items = LastOfHistory(k)

\* C13: after dump_bad_media(), in a queue made from the same save file,
\* every path enqueued in the initial scan that the dumped registry held has
\* the status it had there, whichever of the four it was.
PersistRoundTrip ==
    (pc = "q_init" /\ audit.dumps >= 1)
    => \A p \in DOMAIN meme_queue.media \cap DOMAIN audit.persisted :
           meme_queue.media[p].status = audit.persisted[p]

\* C13 happens: a registry holding a NEW and a RETRACTED item was dumped and
\* both paths are in the registry of the queue made afterwards.
PersistRoundTripWitness ==
    /\ pc = "q_init"
    /\ audit.dumps >= 1
    /\ DOMAIN audit.persisted = QueuePaths
    /\ DOMAIN meme_queue.media = QueuePaths
    /\ \E p, r \in QueuePaths :
           /\ audit.persisted[p] = "NEW"
           /\ audit.persisted[r] = "RETRACTED"

\* The save file f maps every path registered in q to the name of its status.
Flushed(q, f) ==
    \A p \in DOMAIN q.media :
        /\ f.exists
        /\ f.json
        /\ p \in DOMAIN f.data
        /\ f.data[p] = q.media[p].status

\* C14: after shutdown the save file of the meme queue and, when there is a
\* commercial queue, the save file of the commercial queue each map every
\* registered path to the name of its status.
ShutdownFlushesBoth ==
    pc = "stopped"
    => /\ Flushed(meme_queue, disk.meme_info)
       /\ commercial_queue # None
              => Flushed(commercial_queue, disk.commercial_info)

\* C14 for the meme queue alone.
ShutdownFlushesMemes == pc = "stopped" => Flushed(meme_queue, disk.meme_info)

\* The queue made from the save file has not failed, holds no prior state,
\* and what its initial scan has enqueued is NORMAL.
StartsClean ==
    /\ pc # "q_failed"
    /\ pc = "q_init"
          => /\ meme_queue.meme_info = EmptyDict
             /\ meme_queue.displayed_media = << >>
             /\ \A p \in DOMAIN meme_queue.media :
                    meme_queue.media[p].status = "NORMAL"

\* C15: making a queue whose save file is absent, or does not parse, does
\* not fail: the queue starts with no prior state and every path enqueued in
\* the initial scan is NORMAL.
ConstructWithoutSaveFile ==
    (~disk.meme_info.exists \/ ~disk.meme_info.json) => StartsClean

\* C15 for the absent save file alone.
ConstructAbsentSaveFile == ~disk.meme_info.exists => StartsClean

\* No path occurs twice in the deque of the meme queue.
NoDuplicates ==
    \A i, j \in 1..Len(meme_queue.media_queue) :
        meme_queue.media_queue[i] = meme_queue.media_queue[j] => i = j

\* C16: add_media of a registered path changes nothing in the queue; after
\* add_media calls alone the registry holds as many items as distinct paths
\* were given, and no path is twice in the deque.
EnqueueIdempotent ==
    /\ [][(call'.name = "add_media" /\ call'.path # NoPath)
            => meme_queue' = meme_queue]_vars
    /\ [](audit.pure
            => /\ Cardinality(DOMAIN meme_queue.media) = Len(audit.enq)
               /\ DOMAIN meme_queue.media = Range(audit.enq)
               /\ NoDuplicates)

\* C16 happens: two paths were given to add_media, one of them again, and
\* nothing else was called.
EnqueueIdempotentWitness ==
    /\ audit.pure
    /\ Len(audit.enq) = 2
    /\ call.name = "add_media"
    /\ call.path \in Range(audit.enq)

\* C17: whatever add_media, next_media and block_media calls have been made,
\* every path in the deque is registered and is there once, and every
\* registered path that is not in the deque has a bad status.
QueueRegistryConsistent ==
    InQueueRun
    => /\ Range(meme_queue.media_queue) \subseteq DOMAIN meme_queue.media
       /\ NoDuplicates
       /\ \A p \in DOMAIN meme_queue.media \ Range(meme_queue.media_queue) :
              meme_queue.media[p].status \in {"PENDING", "RETRACTED"}

\* C17 happens: after a display, a block and a next_media that dropped the
\* blocked path, one registered path is in the deque and the other is not.
QueueRegistryWitness ==
    /\ pc = "q_run"
    /\ Returned
    /\ Len(History) >= 2
    /\ DOMAIN meme_queue.media = QueuePaths
    /\ Len(meme_queue.media_queue) = 1
    /\ \E p \in blocked : p \in HistoryPaths /\ p \notin Range(meme_queue.media_queue)

\* C18: a path that add_media registers gets, in the initial scan, the
\* status the save file holds for it, NORMAL when it holds none; in a later
\* scan it gets NEW whatever the save file holds, also when it was
\* registered before and deleted.
EnqueueStatus ==
    [][call'.name = "add_media"
        => \A p \in DOMAIN meme_queue'.media \ DOMAIN meme_queue.media :
              LET status == meme_queue'.media[p].status
                  saved == disk.meme_info
              IN  IF pc # "q_init" THEN status = "NEW"
                  ELSE IF saved.json /\ p \in DOMAIN saved.data
                  THEN MemeStatusValue[status] = saved.data[p]
                  ELSE status = "NORMAL"]_vars

\* C18 happens: a path for which the save file holds NORMAL was displayed,
\* deleted from the registry, and is registered again as NEW.
EnqueueStatusWitness ==
    /\ pc = "q_run"
    /\ call.name = "add_media"
    /\ disk.meme_info.json
    /\ \E p \in HistoryPaths \cap DOMAIN meme_queue.media :
           /\ meme_queue.media[p].status = "NEW"
           /\ p \in DOMAIN disk.meme_info.data
           /\ disk.meme_info.data[p] = "NORMAL"

\* The place of the first display of p in the history, 0 when there is none.
FirstDisplay(p) ==
    IF p \in HistoryPaths
    THEN CHOOSE i \in 1..Len(History) :
             /\ History[i].path = p
             /\ \A j \in 1..(i - 1) : History[j].path # p
    ELSE 0

\* Pairs (i, j): path audit.enq[i] was given to add_media before audit.enq[j],
\* only next_media was called since, and both are eligible.
ScanPairs ==
    {ij \in (1..Len(audit.enq)) \X (1..Len(audit.enq)) :
        /\ ij[1] < ij[2]
        /\ Eligible(meme_queue, files, audit.enq[ij[1]])
        /\ Eligible(meme_queue, files, audit.enq[ij[2]])}

ReturnedCarriesOldStatus ==
    /\ [][Returned' =>
             LET X == call'.ret.path
             IN  /\ X \in DOMAIN meme_queue.media
                 /\ call'.ret = meme_queue.media[X]
                 /\ meme_queue'.displayed_media[Len(meme_queue'.displayed_media)]
                        = meme_queue.media[X]]_vars
    /\ [][(InQueueRun /\ InQueueRun') =>
             /\ Len(meme_queue'.displayed_media) >= Len(History)
             /\ \A i \in 1..Len(History) :
                    meme_queue'.displayed_media[i] = History[i]]_vars

\* C20 happens: a path was displayed as NEW, later as NORMAL, and was then
\* blocked; the history still holds the two entries.
ReturnedCarriesOldStatusWitness ==
    /\ pc = "q_run"
    /\ call.name = "block_media"
    /\ call.raised = NoError
    /\ meme_queue.media[call.path].status = "PENDING"
    /\ \E i, j \in 1..Len(History) :
           /\ i < j
           /\ History[i] = Multimedia(call.path, "NEW")
           /\ History[j] = Multimedia(call.path, "NORMAL")

====
